---- MODULE Spec2Model ----
(***************************************************************************)
(* Cart-to-order pipeline of the E-Commerce server (Server.js routes and   *)
(* the Order model).  Every route handler is an async function: between    *)
(* two awaits other requests may run, so each handler is split into one    *)
(* action per awaited database call.  Money is counted in units of         *)
(* 1/100000 dollar so that prices with three decimals, the 8% tax and the  *)
(* rounding of toFixed(2) are exact integers (binary floating point error  *)
(* is not modelled).  A database read that fails ends its request with a   *)
(* 500 response before anything is written; only the failures of writes    *)
(* (save, deleteOne, deleteMany) are modelled.  When a response is sent the *)
(* handler's locals are gone: loc and pre are reset.                       *)
(***************************************************************************)
EXTENDS Integers, Sequences, FiniteSets, TLC

\* ---------------------------------------------------------------- bounds
MaxCalls == 2           \* requests served in one behaviour
MaxRand == 2            \* size of the range Math.random() draws order numbers from

\* ------------------------------------------------------- program constants
RandomBase == 10000     \* Math.floor(10000 + Math.random() * 90000)
shipping == 599000      \* 5.99
taxRate == 8            \* 0.08, in hundredths

\* ------------------------------------------------------------ input sets
Users == {"u1", "u2"}
Products == {"p1", "p2"}
Slots == {1, 2}
Quantities == {-1, 0, 2}
Dates == {"20240115"}
RandomNums == RandomBase .. (RandomBase + MaxRand - 1)

Undefined == "undefined"

AllShippingFields == {"city", "phone", "fullName", "address", "state", "zipCode"}
\* req.body.shippingInfo: absent, complete, or lacking the city
ShippingInputs ==
    { [defined |-> FALSE, v |-> [f \in AllShippingFields |-> Undefined]],
      [defined |-> TRUE, v |-> [f \in AllShippingFields |-> "x"]],
      [defined |-> TRUE,
       v |-> [f \in AllShippingFields |-> IF f = "city" THEN Undefined ELSE "x"]] }

VARIABLES
    products,     \* Product collection: productId -> document or NullProduct
    cartItems,    \* CartItem collection: set of documents
    orders,       \* Order collection, in insertion order
    nextId,       \* next _id handed out to a CartItem document
    pc,           \* per request slot: the await the handler is suspended at
    op,           \* per slot: the route being served
    usr,          \* per slot: req.user.id
    body,         \* per slot: req.body / req.params
    loc,          \* per slot: the handler's local variables
    resp,         \* per slot: the response sent (status, payload)
    calls,        \* requests started so far
    pre,          \* per slot: the stores as they were when the call started
    solo          \* per slot: no other request of the same user ran since the call started

vars == <<products, cartItems, orders, nextId, pc, op, usr, body, loc, resp, calls, pre, solo>>

\* ---------------------------------------------------------------- documents
NullProduct == [name |-> "", price |-> -1]
NullItem == [id |-> 0, userId |-> "", productId |-> "", quantity |-> 0]
NullOrder ==
    [orderId |-> <<>>, userId |-> "", items |-> <<>>,
     shippingInfo |-> [city |-> Undefined, phone |-> Undefined],
     orderSummary |-> [subtotal |-> 0, shipping |-> 0, tax |-> 0, total |-> 0],
     status |-> ""]

NoBody == [productId |-> "", quantity |-> 0, shippingInfo |-> CHOOSE s \in ShippingInputs : ~s.defined,
           orderId |-> <<>>]
NoLoc == [product |-> NullProduct, item |-> NullItem, newOrder |-> NullOrder]
NoResp == [status |-> 0, message |-> "", data |-> <<>>]
NoPre == [cartItems |-> {}, products |-> [p \in Products |-> NullProduct], orders |-> <<>>]

\* ---------------------------------------------------------------- helpers
ProductName(p) == IF p = "p1" THEN "gum" ELSE "lamp"

\* Product.findById
FindProduct(p) == IF p \in Products THEN products[p] ELSE NullProduct

\* CartItem.find / findOne filters
CartOf(items, u) == {c \in items : c.userId = u}
LinesOf(items, u, p) == {c \in items : c.userId = u /\ c.productId = p}

\* documents in natural (insertion) order
\* Order.find({userId}): the user's orders, in insertion order
OrdersOf(os, u) == SelectSeq(os, LAMBDA o : o.userId = u)

RECURSIVE SortById(_)
SortById(S) ==
    IF S = {} THEN <<>>
    ELSE LET m == CHOOSE c \in S : \A d \in S : c.id <= d.id
         IN <<m>> \o SortById(S \ {m})

\* CartItem.findOne({userId, productId}): the first match in natural order, or null
FindOneItem(u, p) ==
    IF LinesOf(cartItems, u, p) = {} THEN NullItem
    ELSE SortById(LinesOf(cartItems, u, p))[1]

\* Number.prototype.toFixed(2) followed by parseFloat: round half up to a cent
toFixed2(x) == ((x + 500) \div 1000) * 1000

\* `ORD-${date}-${randomNum}`
GenerateOrderId(date, randomNum) == <<"ORD", date, randomNum>>

\* ------------------------------------------------------------ the CartItem model
\* models/CartItem.js: quantity is a Number with min 1
CartItemValid_mutant(doc) == TRUE
CartItemValid(doc) == doc.quantity >= 1

\* models/CartItem.js: unique index on (userId, productId)
CartItemUnique_mutant(items, doc) == TRUE
CartItemUnique(items, doc) == LinesOf(items, doc.userId, doc.productId) = {}

\* ------------------------------------------------------------ request bookkeeping
Idle(r) == pc[r] \in {"idle", "done"}

\* a step of slot r: every other in-flight request of the same user has been interleaved with
Interleave(r, u) ==
    [s \in Slots |-> IF s # r /\ ~Idle(s) /\ usr[s] = u THEN FALSE ELSE solo[s]]

\* Date.now(): the requests are stamped in the order they arrive
Now == calls + 1

\* a request arrives and is served in the first free slot
Begin(r, route, u, b) ==
    /\ Idle(r)
    /\ \A s \in Slots : s < r => ~Idle(s)
    /\ calls < MaxCalls
    /\ calls' = calls + 1
    /\ op' = [op EXCEPT ![r] = route]
    /\ usr' = [usr EXCEPT ![r] = u]
    /\ body' = [body EXCEPT ![r] = b]
    /\ solo' = [Interleave(r, u) EXCEPT ![r] = TRUE]

\* the handler resumes in slot r after the await `at`
Resume(r, at) ==
    /\ pc[r] = at
    /\ solo' = Interleave(r, usr[r])
    /\ UNCHANGED <<calls, op, usr, body>>

\* res.status(code).json(...): the handler is finished
Send(r, code, msg, data) ==
    /\ pc' = [pc EXCEPT ![r] = "done"]
    /\ resp' = [resp EXCEPT ![r] = [status |-> code, message |-> msg, data |-> data]]
    /\ loc' = [loc EXCEPT ![r] = NoLoc]
    /\ pre' = [pre EXCEPT ![r] = NoPre]

\* the handler suspends at its next await, with locals l
Await(r, at, l) ==
    /\ pc' = [pc EXCEPT ![r] = at]
    /\ resp' = [resp EXCEPT ![r] = NoResp]
    /\ loc' = [loc EXCEPT ![r] = l]
    /\ pre' = [pre EXCEPT ![r] =
                 IF Idle(r)
                 THEN [cartItems |-> cartItems, products |-> products, orders |-> orders]
                 ELSE pre[r]]

\* the database as earlier requests and the catalog owner left it
Line(i, u, p, q) == [id |-> i, userId |-> u, productId |-> p, quantity |-> q]
Product(p, price) == [name |-> ProductName(p), price |-> price]
InitialDatabases ==
    { [products |-> [p \in Products |-> IF p = "p1" THEN Product(p, 1400) ELSE Product(p, 1999000)],
       cartItems |-> {Line(1, "u1", "p1", 1), Line(2, "u1", "p2", 2)}],
      [products |-> [p \in Products |-> IF p = "p1" THEN Product(p, 1999000) ELSE NullProduct],
       cartItems |-> {Line(1, "u1", "p2", 1), Line(2, "u2", "p1", 1)}] }

Init ==
    /\ \E db \in InitialDatabases :
          /\ products = db.products
          /\ cartItems = db.cartItems
    /\ orders = <<>>
    /\ nextId = 3
    /\ pc = [r \in Slots |-> "idle"]
    /\ op = [r \in Slots |-> ""]
    /\ usr = [r \in Slots |-> "u1"]
    /\ body = [r \in Slots |-> NoBody]
    /\ loc = [r \in Slots |-> NoLoc]
    /\ resp = [r \in Slots |-> NoResp]
    /\ calls = 0
    /\ pre = [r \in Slots |-> NoPre]
    /\ solo = [r \in Slots |-> TRUE]

\* ------------------------------------------------------------ POST /cart/add
\* Product.findById(productId); 404 when the product does not exist
AddFindProduct(r) ==
    \E u \in Users, p \in Products, q \in Quantities :
        /\ Begin(r, "add", u, [NoBody EXCEPT !.productId = p, !.quantity = q])
        /\ UNCHANGED <<products, cartItems, orders, nextId>>
        /\ IF FindProduct(p) = NullProduct
           THEN Send(r, 404, "Product not found", <<>>)
           ELSE Await(r, "add_findOne", [NoLoc EXCEPT !.product = FindProduct(p)])

\* CartItem.findOne({userId, productId})
AddFindOne(r) ==
    /\ Resume(r, "add_findOne")
    /\ UNCHANGED <<products, cartItems, orders, nextId>>
    /\ Await(r, "add_save", [loc[r] EXCEPT !.item = FindOneItem(usr[r], body[r].productId)])

\* document.save() of a document read earlier: validate, then update by _id with
\* the document's own quantity ($set); the save is refused when validation fails
\* or when the document has been deleted meanwhile (nothing is written then)
SaveExisting(doc) ==
    IF CartItemValid(doc) /\ \E c \in cartItems : c.id = doc.id
    THEN {(cartItems \ {c \in cartItems : c.id = doc.id}) \cup {doc}}
    ELSE {}

\* document.save() of a new document: validate, then insert
SaveNew(doc) ==
    IF CartItemValid(doc) /\ CartItemUnique(cartItems, doc)
    THEN {cartItems \cup {doc}}
    ELSE {}

\* existingCartItem.quantity += quantity
Increment_mutant(existing, q) == [existing EXCEPT !.quantity = q]
Increment(existing, q) == [existing EXCEPT !.quantity = existing.quantity + q]

\* existingCartItem.quantity += quantity and save, or save a new CartItem
AddSave(r) ==
    \E ok \in BOOLEAN :
        /\ Resume(r, "add_save")
        /\ UNCHANGED <<products, orders>>
        /\ LET existing == loc[r].item
               q == body[r].quantity
               doc == IF existing # NullItem
                      THEN Increment(existing, q)
                      ELSE [id |-> nextId, userId |-> usr[r],
                            productId |-> body[r].productId, quantity |-> q]
               saved == IF existing # NullItem THEN SaveExisting(doc) ELSE SaveNew(doc)
           IN IF ~ok \/ saved = {}
              THEN /\ Send(r, 500, "Error adding item to cart", <<>>)
                   /\ UNCHANGED <<cartItems, nextId>>
              ELSE /\ cartItems' \in saved
                   /\ IF existing # NullItem
                      THEN /\ Send(r, 200, "Cart updated successfully",
                                   <<loc[r].product.name, doc.quantity>>)
                           /\ UNCHANGED nextId
                      ELSE /\ Send(r, 201, "Item added to cart successfully",
                                   <<loc[r].product.name, q>>)
                           /\ nextId' = nextId + 1

\* ------------------------------------------------------------ PUT /cart/update
\* if (quantity < 1)
QuantityTooSmall_mutant(q) == q < 0
QuantityTooSmall(q) == q < 1

\* quantity < 1 is refused; then CartItem.findOne({userId, productId})
UpdateFindOne(r) ==
    \E u \in Users, p \in Products, q \in Quantities :
        /\ Begin(r, "update", u, [NoBody EXCEPT !.productId = p, !.quantity = q])
        /\ UNCHANGED <<products, cartItems, orders, nextId>>
        /\ IF QuantityTooSmall(q)
           THEN Send(r, 400, "Quantity must be at least 1", <<>>)
           ELSE IF FindOneItem(u, p) = NullItem
           THEN Send(r, 404, "Item not found in cart", <<>>)
           ELSE Await(r, "update_save", [NoLoc EXCEPT !.item = FindOneItem(u, p)])

\* cartItem.quantity = quantity; cartItem.save()
UpdateSave(r) ==
    \E ok \in BOOLEAN :
        /\ Resume(r, "update_save")
        /\ UNCHANGED <<products, orders, nextId>>
        /\ LET doc == [loc[r].item EXCEPT !.quantity = body[r].quantity]
           IN IF ~ok \/ SaveExisting(doc) = {}
              THEN /\ Send(r, 500, "Error updating cart", <<>>)
                   /\ UNCHANGED cartItems
              ELSE /\ cartItems' \in SaveExisting(doc)
                   /\ Await(r, "update_findProduct", [loc[r] EXCEPT !.item = doc])

\* Product.findById(productId), then product.name in the response
UpdateFindProduct(r) ==
    /\ Resume(r, "update_findProduct")
    /\ UNCHANGED <<products, cartItems, orders, nextId>>
    /\ IF FindProduct(body[r].productId) = NullProduct
       THEN Send(r, 500, "Error updating cart", <<>>)
       ELSE Send(r, 200, "Cart updated successfully",
                 <<FindProduct(body[r].productId).name, body[r].quantity>>)

\* ------------------------------------------------------------ DELETE /cart/remove
\* CartItem.findOne({userId, productId})
RemoveFindOne(r) ==
    \E u \in Users, p \in Products :
        /\ Begin(r, "remove", u, [NoBody EXCEPT !.productId = p])
        /\ UNCHANGED <<products, cartItems, orders, nextId>>
        /\ IF FindOneItem(u, p) = NullItem
           THEN Send(r, 404, "Item not found in cart", <<>>)
           ELSE Await(r, "remove_findProduct", [NoLoc EXCEPT !.item = FindOneItem(u, p)])

\* Product.findById(productId)
RemoveFindProduct(r) ==
    /\ Resume(r, "remove_findProduct")
    /\ UNCHANGED <<products, cartItems, orders, nextId>>
    /\ Await(r, "remove_deleteOne", [loc[r] EXCEPT !.product = FindProduct(body[r].productId)])

\* CartItem.deleteOne({userId, productId}): the first match, if any
DeleteOne(u, p) ==
    IF FindOneItem(u, p) = NullItem THEN cartItems ELSE cartItems \ {FindOneItem(u, p)}

\* CartItem.deleteOne, then product.name in the response
RemoveDeleteOne(r) ==
    \E ok \in BOOLEAN :
        /\ Resume(r, "remove_deleteOne")
        /\ UNCHANGED <<products, orders, nextId>>
        /\ IF ~ok
           THEN /\ Send(r, 500, "Error removing item from cart", <<>>)
                /\ UNCHANGED cartItems
           ELSE /\ cartItems' = DeleteOne(usr[r], body[r].productId)
                /\ IF loc[r].product = NullProduct
                   THEN Send(r, 500, "Error removing item from cart", <<>>)
                   ELSE Send(r, 200, "Item removed from cart successfully",
                             <<loc[r].product.name>>)

\* ------------------------------------------------------------ POST /orders
\* .populate('productId', ...): the product document, or null when it is gone
Populate(item) == [item EXCEPT !.productId = [_id |-> item.productId, doc |-> FindProduct(item.productId)]]

\* one element of cartItems.map(...): the order line of a populated cart item
OrderItem(item) ==
    [productId |-> item.productId._id,
     name |-> item.productId.doc.name,
     price |-> item.productId.doc.price,
     quantity |-> item.quantity,
     itemTotal |-> item.productId.doc.price * item.quantity]

OrderItems(populated) == [i \in 1..Len(populated) |-> OrderItem(populated[i])]

RECURSIVE Subtotal(_)
Subtotal(items) ==
    IF items = <<>> THEN 0 ELSE items[1].itemTotal + Subtotal(Tail(items))

\* tax, total and the orderSummary stored with the order
OrderSummary(subtotal) ==
    LET tax == (subtotal * taxRate) \div 100
        total == subtotal + shipping + tax
    IN [subtotal |-> toFixed2(subtotal),
        shipping |-> shipping,
        tax |-> toFixed2(tax),
        total |-> toFixed2(total)]

\* new Order({...}): only city and phone are taken from the request
\* status and orderDate take the schema defaults: 'pending' and Date.now
NewOrder_mutant(orderId, u, items, shippingInfo, now) ==
    [orderId |-> orderId,
     userId |-> u,
     items |-> items,
     shippingInfo |-> shippingInfo.v,
     orderSummary |-> OrderSummary(Subtotal(items)),
     status |-> "pending",
     orderDate |-> now]
NewOrder(orderId, u, items, shippingInfo, now) ==
    [orderId |-> orderId,
     userId |-> u,
     items |-> items,
     shippingInfo |-> [city |-> shippingInfo.v["city"], phone |-> shippingInfo.v["phone"]],
     orderSummary |-> OrderSummary(Subtotal(items)),
     status |-> "pending",
     orderDate |-> now]

\* orderSchema validation run by save()
OrderValid_mutant(o) == TRUE
OrderValid(o) ==
    /\ o.orderId # <<>>
    /\ \A i \in 1..Len(o.items) :
          /\ o.items[i].price >= 0
          /\ o.items[i].quantity >= 1
          /\ o.items[i].itemTotal >= 0
    /\ o.shippingInfo.city # Undefined
    /\ o.shippingInfo.phone # Undefined
    /\ o.orderSummary.subtotal >= 0
    /\ o.orderSummary.tax >= 0
    /\ o.orderSummary.total >= 0

\* orderSchema.pre('save'): an id is generated only when the document has none
PreSave(o, date, randomNum) ==
    IF o.orderId = <<>> THEN [o EXCEPT !.orderId = GenerateOrderId(date, randomNum)] ELSE o

\* Order.save(): insert; the index on orderId is not unique
InsertOrder_locked(o) ==
    IF \E i \in 1..Len(orders) : orders[i].userId = o.userId /\ orders[i].items = o.items
    THEN orders
    ELSE Append(orders, o)
InsertOrder_mutant(o) ==
    IF \E i \in 1..Len(orders) : orders[i].userId = o.userId
    THEN [i \in 1..Len(orders) |-> IF orders[i].userId = o.userId THEN o ELSE orders[i]]
    ELSE Append(orders, o)
InsertOrder(o) == Append(orders, o)

\* !cartItems || cartItems.length === 0
CartIsEmpty_mutant(found) == FALSE
CartIsEmpty(found) == Len(found) = 0

\* CartItem.find({userId}).populate(...), the totals, the order id and new Order(...)
PlaceOrderFind(r) ==
    \E u \in Users, sh \in ShippingInputs, date \in Dates, randomNum \in RandomNums :
        /\ Begin(r, "placeOrder", u, [NoBody EXCEPT !.shippingInfo = sh])
        /\ UNCHANGED <<products, cartItems, orders, nextId>>
        /\ LET found == SortById(CartOf(cartItems, u))
               populated == [i \in 1..Len(found) |-> Populate(found[i])]
           IN IF CartIsEmpty(found)
              THEN Send(r, 400, "Cart is empty", <<>>)
              ELSE IF \E i \in 1..Len(populated) : populated[i].productId.doc = NullProduct
              THEN Send(r, 500, "Error processing order", <<>>)
              ELSE IF ~sh.defined
              THEN Send(r, 500, "Error processing order", <<>>)
              ELSE Await(r, "order_save",
                         [NoLoc EXCEPT !.newOrder = NewOrder(GenerateOrderId(date, randomNum),
                                                             u, OrderItems(populated), sh, Now)])

\* newOrder.save()
PlaceOrderSave(r) ==
    \E ok \in BOOLEAN, date \in Dates, randomNum \in RandomNums :
        /\ Resume(r, "order_save")
        /\ UNCHANGED <<products, cartItems, nextId>>
        /\ LET o == PreSave(loc[r].newOrder, date, randomNum)
           IN IF ~ok \/ ~OrderValid(o)
              THEN /\ Send(r, 500, "Error processing order", <<>>)
                   /\ UNCHANGED orders
              ELSE /\ orders' = InsertOrder(o)
                   /\ Await(r, "order_deleteMany", [loc[r] EXCEPT !.newOrder = o])

\* CartItem.deleteMany({userId})
DeleteMany_mutant(u) == DeleteOne(u, "p1")
DeleteMany(u) == cartItems \ CartOf(cartItems, u)

\* the cart is cleared and the confirmation sent
PlaceOrderDeleteMany(r) ==
    \E ok \in BOOLEAN :
        /\ Resume(r, "order_deleteMany")
        /\ UNCHANGED <<products, orders, nextId>>
        /\ IF ~ok
           THEN /\ Send(r, 500, "Error processing order", <<>>)
                /\ UNCHANGED cartItems
           ELSE /\ cartItems' = DeleteMany(usr[r])
                /\ Send(r, 201, "Order placed successfully",
                        <<loc[r].newOrder.orderId, loc[r].newOrder.orderSummary.total,
                          Len(loc[r].newOrder.items)>>)

\* ------------------------------------------------------------ GET /orders/:orderId
\* Order.findOne({orderId, userId}): the first match in insertion order
FindOneOrder_mutant(orderId, u) ==
    LET hits == {i \in 1..Len(orders) : orders[i].orderId = orderId}
    IN IF hits = {} THEN <<>>
       ELSE <<orders[CHOOSE i \in hits : \A j \in hits : i <= j]>>
FindOneOrder(orderId, u) ==
    LET hits == {i \in 1..Len(orders) : orders[i].orderId = orderId /\ orders[i].userId = u}
    IN IF hits = {} THEN <<>>
       ELSE <<orders[CHOOSE i \in hits : \A j \in hits : i <= j]>>

GetOrder(r) ==
    \E u \in Users, date \in Dates, randomNum \in RandomNums :
        /\ Begin(r, "getOrder", u, [NoBody EXCEPT !.orderId = GenerateOrderId(date, randomNum)])
        /\ UNCHANGED <<products, cartItems, orders, nextId>>
        /\ IF FindOneOrder(GenerateOrderId(date, randomNum), u) = <<>>
           THEN Send(r, 404, "Order not found", <<>>)
           ELSE Send(r, 200, "", FindOneOrder(GenerateOrderId(date, randomNum), u))

\* ------------------------------------------------------------ GET /cart
\* .sort({ createdAt: -1 }): the newest document first
NewestFirst(S) == [i \in 1..Cardinality(S) |-> SortById(S)[Cardinality(S) + 1 - i]]

\* one element of cartItems.map(...): the cart entry of a populated cart item
CartEntry(item) ==
    [id |-> item.productId._id,
     name |-> item.productId.doc.name,
     price |-> item.productId.doc.price,
     quantity |-> item.quantity]

\* CartItem.find({userId}).populate(...).sort(...), mapped to cart entries
GetCart(r) ==
    \E u \in Users :
        /\ Begin(r, "getCart", u, NoBody)
        /\ UNCHANGED <<products, cartItems, orders, nextId>>
        /\ LET found == NewestFirst(CartOf(cartItems, u))
               populated == [i \in 1..Len(found) |-> Populate(found[i])]
           IN IF \E i \in 1..Len(populated) : populated[i].productId.doc = NullProduct
              THEN Send(r, 500, "Error fetching cart", <<>>)
              ELSE Send(r, 200, "", [i \in 1..Len(populated) |-> CartEntry(populated[i])])

\* ------------------------------------------------------------ GET /orders
\* .sort({ orderDate: -1 }): the most recent order first
RECURSIVE MostRecentFirst(_)
MostRecentFirst(os) ==
    IF os = <<>> THEN <<>>
    ELSE LET m == CHOOSE i \in 1..Len(os) : \A j \in 1..Len(os) : os[j].orderDate <= os[i].orderDate
         IN <<os[m]>> \o MostRecentFirst([k \in 1..(Len(os) - 1) |-> IF k < m THEN os[k] ELSE os[k + 1]])

\* one element of orders.map(...): the summary of an order
OrderHistoryEntry(order) ==
    [orderId |-> order.orderId,
     orderDate |-> order.orderDate,
     status |-> order.status,
     itemCount |-> Len(order.items),
     total |-> order.orderSummary.total]

\* Order.find({userId}): the caller's orders
FindOrders_mutant(u) == orders
FindOrders(u) == OrdersOf(orders, u)

\* Order.find({userId}).sort(...).select(...), mapped to summaries
ListOrders(r) ==
    \E u \in Users :
        /\ Begin(r, "listOrders", u, NoBody)
        /\ UNCHANGED <<products, cartItems, orders, nextId>>
        /\ LET found == MostRecentFirst(FindOrders(u))
           IN Send(r, 200, "", [i \in 1..Len(found) |-> OrderHistoryEntry(found[i])])

Next ==
    \E r \in Slots :
        \/ AddFindProduct(r)
        \/ AddFindOne(r)
        \/ AddSave(r)
        \/ UpdateFindOne(r)
        \/ UpdateSave(r)
        \/ UpdateFindProduct(r)
        \/ RemoveFindOne(r)
        \/ RemoveFindProduct(r)
        \/ RemoveDeleteOne(r)
        \/ PlaceOrderFind(r)
        \/ PlaceOrderSave(r)
        \/ PlaceOrderDeleteMany(r)
        \/ GetOrder(r)
        \/ GetCart(r)
        \/ ListOrders(r)

Spec == Init /\ [][Next]_vars

\* ------------------------------------------------------------ the catalog owner
\* prices a product can be given
Prices == {1400, 1999000}

\* a price that a stored order has copied is changed in the catalog; the change
\* counts as one of the MaxCalls operations of a run
CatalogPriceChange ==
    \E p \in Products :
        \E price \in Prices :
            /\ calls < MaxCalls
            /\ calls' = calls + 1
            /\ products[p] # NullProduct
            /\ products[p].price # price
            /\ \E i \in 1..Len(orders) :
                  \E j \in 1..Len(orders[i].items) :
                      /\ orders[i].items[j].productId = p
                      /\ orders[i].items[j].price = products[p].price
            /\ products' = [products EXCEPT ![p].price = price]
            /\ UNCHANGED <<cartItems, orders, nextId, pc, op, usr, body, loc, resp, pre, solo>>

NextCatalog == Next \/ CatalogPriceChange

SpecCatalog == Init /\ [][NextCatalog]_vars

\* ================================================================ properties
\* a request begins in slot r in this step
Began(r) == calls' = calls + 1 /\ Idle(r) /\ \A s \in Slots : s < r => ~Idle(s)

\* Order.find({userId}) in insertion order
OrderIds == {orders[i].orderId : i \in 1..Len(orders)}

\* the items are exactly the cart lines, with the catalog's names and prices
ItemsMatch(items, lines, catalog) ==
    /\ Len(items) = Cardinality(lines)
    /\ \A l \in lines :
          \E i \in 1..Len(items) :
              /\ items[i].productId = l.productId
              /\ items[i].quantity = l.quantity
              /\ items[i].name = catalog[l.productId].name
              /\ items[i].price = catalog[l.productId].price

\* C1: when a placeOrder call that no other request of the same user interleaved
\* with succeeds, the user's cart has no lines and the user has exactly one order
\* more than before the call, whose items are the lines of the cart as it was
\* before the call (same products, names, prices and quantities).
C1_PlaceOrderSuccess ==
    [][\A r \in Slots :
          (pc[r] = "order_deleteMany" /\ pc'[r] = "done" /\ resp'[r].status = 201 /\ solo[r])
          => LET u == usr[r]
                 mine == OrdersOf(orders', u)
             IN /\ CartOf(cartItems', u) = {}
                /\ Len(mine) = Len(OrdersOf(pre[r].orders, u)) + 1
                /\ SubSeq(mine, 1, Len(mine) - 1) = OrdersOf(pre[r].orders, u)
                /\ ItemsMatch(mine[Len(mine)].items, CartOf(pre[r].cartItems, u), pre[r].products)
                /\ resp'[r].data[1] = mine[Len(mine)].orderId]_vars

C1_Witness ==
    \E r \in Slots :
        /\ op[r] = "placeOrder" /\ pc[r] = "done" /\ resp[r].status = 201 /\ solo[r]
        /\ CartOf(cartItems, usr[r]) = {}
        /\ Len(orders) = 1 /\ Len(orders[1].items) = 2

\* C2: when the order has been persisted and the cart-clear step fails, placeOrder
\* still reports that the order was placed, and the order stays in the store.
C2_DegradedSuccess ==
    [][\A r \in Slots :
          (pc[r] = "order_deleteMany" /\ pc'[r] = "done")
          => /\ resp'[r].status = 201
             /\ \E i \in 1..Len(orders') : orders'[i] = loc[r].newOrder]_vars

\* C3: no two orders in the order store have the same orderId.
C3_UniqueOrderIds ==
    \A i, j \in 1..Len(orders) : i # j => orders[i].orderId # orders[j].orderId

\* C4: when the id generated by placeOrder collides with the id of an existing
\* order, the order is not persisted under that id: placeOrder regenerates the id
\* and retries, or ends with a failure.
C4_RetryOnCollision ==
    [][\A r \in Slots :
          (pc[r] = "order_save" /\ loc[r].newOrder.orderId \in OrderIds)
          => \/ pc'[r] = "order_save"
             \/ pc'[r] = "done" /\ resp'[r].status >= 400 /\ orders' = orders
             \/ /\ Len(orders') = Len(orders) + 1
                /\ orders'[Len(orders')].orderId \notin OrderIds]_vars

\* C5: placeOrder on a user whose cart has no lines fails with 400 "Cart is empty",
\* stores no order, leaves the cart store alone and ends the handler at once.
C5_EmptyCart ==
    [][\A r \in Slots :
          (Began(r) /\ op'[r] = "placeOrder" /\ CartOf(cartItems, usr'[r]) = {})
          => /\ pc'[r] = "done"
             /\ resp'[r] = [status |-> 400, message |-> "Cart is empty", data |-> <<>>]
             /\ orders' = orders
             /\ cartItems' = cartItems]_vars

C5_Witness ==
    \E r \in Slots :
        /\ op[r] = "placeOrder" /\ pc[r] = "done"
        /\ resp[r].message = "Cart is empty"
        /\ CartOf(cartItems, usr[r]) = {}

\* C6: GET /orders/:orderId answers with an order only when the caller owns an
\* order with that id, and then with one of the caller's own; otherwise the answer
\* is 404 "Order not found", whether or not another user has an order with the id.
C6_OwnOrdersOnly ==
    [][\A r \in Slots :
          (Began(r) /\ op'[r] = "getOrder")
          => LET own == {i \in 1..Len(orders) : /\ orders[i].userId = usr'[r]
                                                /\ orders[i].orderId = body'[r].orderId}
             IN IF own = {}
                THEN resp'[r] = [status |-> 404, message |-> "Order not found", data |-> <<>>]
                ELSE /\ resp'[r].status = 200
                     /\ resp'[r].data[1] \in {orders[i] : i \in own}]_vars

C6_Witness ==
    \E r \in Slots :
        /\ op[r] = "getOrder" /\ pc[r] = "done" /\ resp[r].status = 404
        /\ \E i \in 1..Len(orders) :
              orders[i].orderId = body[r].orderId /\ orders[i].userId # usr[r]

\* C7: when persisting the order fails (the save is refused, and it is refused
\* whenever the order has no city), placeOrder answers with a failure, no order is
\* added and no cart line is changed.
C7_SaveFailure ==
    [][\A r \in Slots :
          (/\ pc[r] = "order_save"
           /\ pc'[r] # "order_save"
           /\ (pc'[r] = "done" \/ loc[r].newOrder.shippingInfo.city = Undefined))
          => /\ pc'[r] = "done"
             /\ resp'[r].status = 500
             /\ orders' = orders
             /\ cartItems' = cartItems
             /\ solo[r] => CartOf(cartItems', usr[r]) = CartOf(pre[r].cartItems, usr[r])]_vars

C7_Witness ==
    \E r \in Slots :
        /\ op[r] = "placeOrder" /\ pc[r] = "done" /\ resp[r].status = 500 /\ solo[r]
        /\ body[r].shippingInfo.defined
        /\ body[r].shippingInfo.v["city"] = Undefined
        /\ CartOf(cartItems, usr[r]) # {}
        /\ \A c \in CartOf(cartItems, usr[r]) : products[c.productId] # NullProduct
        /\ orders = <<>>

\* C8: the stored total of every order equals the stored subtotal plus the
\* shipping constant plus the stored tax.
C8_TotalIsSum ==
    \A i \in 1..Len(orders) :
        orders[i].orderSummary.total =
            orders[i].orderSummary.subtotal + shipping + orders[i].orderSummary.tax

\* C9: every cart line in the cart store has an integer quantity of at least 1.
C9_QuantityAtLeastOne ==
    \A c \in cartItems : c.quantity \in Nat /\ c.quantity >= 1

\* an add with a quantity below 1 has been refused by the save
C9_Witness ==
    \E r \in Slots :
        /\ op[r] = "add" /\ pc[r] = "done" /\ resp[r].status = 500
        /\ body[r].quantity = -1
        /\ \E c \in LinesOf(cartItems, usr[r], body[r].productId) : c.quantity = 1

\* C10: the cart store holds at most one line per (userId, productId).
C10_OneLinePerProduct ==
    \A c, d \in cartItems :
        (c.userId = d.userId /\ c.productId = d.productId) => c = d

\* two adds of one user for one product: the second has looked up the line and found
\* none, and the first has since written it
C10_Witness ==
    \E r, s \in Slots :
        /\ r # s /\ op[r] = "add" /\ op[s] = "add"
        /\ usr[r] = usr[s] /\ body[r].productId = body[s].productId
        /\ pc[r] = "add_save" /\ loc[r].item = NullItem
        /\ pc[s] = "done" /\ resp[s].status = 201
        /\ LinesOf(cartItems, usr[r], body[r].productId) # {}

\* C11: an update with a quantity below 1 is answered 400 "Quantity must be at
\* least 1" and leaves the cart store unchanged, whether or not the line exists.
C11_UpdateBelowOne ==
    [][\A r \in Slots :
          (Began(r) /\ op'[r] = "update" /\ body'[r].quantity < 1)
          => /\ pc'[r] = "done"
             /\ resp'[r] = [status |-> 400, message |-> "Quantity must be at least 1",
                            data |-> <<>>]
             /\ cartItems' = cartItems]_vars

\* update(u, p, 0) on an existing line has been refused
C11_Witness ==
    \E r \in Slots :
        /\ op[r] = "update" /\ pc[r] = "done" /\ resp[r].status = 400
        /\ body[r].quantity = 0
        /\ LinesOf(cartItems, usr[r], body[r].productId) # {}

\* C12: a successful add of q that no other request of the same user interleaved
\* with leaves exactly one line for (user, product): with quantity q when there was
\* no line, with the line's quantity plus q when there was one; the call returns
\* that quantity.  Two sequential adds of q1 and q2 from no line thus leave one
\* line with quantity q1 + q2, returned by the second.
C12_SequentialAdds ==
    [][\A r \in Slots :
          (pc[r] = "add_save" /\ pc'[r] = "done" /\ resp'[r].status < 400 /\ solo[r])
          => LET before == LinesOf(pre[r].cartItems, usr[r], body[r].productId)
                 after == LinesOf(cartItems', usr[r], body[r].productId)
                 n == IF before = {} THEN 0 ELSE (CHOOSE c \in before : TRUE).quantity
             IN /\ Cardinality(after) = 1
                /\ \A c \in after : c.quantity = n + body[r].quantity
                /\ resp'[r].data[2] = n + body[r].quantity]_vars

\* two adds of 2, one after the other, on a product the user had no line for
C12_Witness ==
    \E r \in Slots :
        /\ calls = 2 /\ \A s \in Slots : Idle(s)
        /\ op[r] = "add" /\ pc[r] = "done" /\ resp[r].status = 200 /\ solo[r]
        /\ resp[r].data[2] = 4
        /\ \E c \in LinesOf(cartItems, usr[r], body[r].productId) :
              c.id >= 3 /\ c.quantity = 4

\* C13: an add, update or remove that answers with a failure status has written
\* nothing: when it fails in its first step the cart store is unchanged, and when
\* it fails later (no request of the same user interleaved) the user's cart is the
\* one it found when the call started.
C13_FailureWritesNothing ==
    [][\A r \in Slots :
          /\ (Began(r) /\ op'[r] \in {"add", "update", "remove"} /\ pc'[r] = "done"
                 /\ resp'[r].status >= 400)
             => cartItems' = cartItems
          /\ (~Idle(r) /\ op[r] \in {"add", "update", "remove"} /\ pc'[r] = "done"
                 /\ resp'[r].status >= 400 /\ solo[r])
             => CartOf(cartItems', usr[r]) = CartOf(pre[r].cartItems, usr[r])]_vars

\* C14: a stored order keeps its place in the order store, its items and its
\* orderSummary in every step: catalog price changes, cart operations and later
\* orders leave it as it was written.
C14_OrdersAreFrozen ==
    [][/\ Len(orders') >= Len(orders)
       /\ \A i \in 1..Len(orders) :
             /\ orders'[i].orderId = orders[i].orderId
             /\ orders'[i].userId = orders[i].userId
             /\ orders'[i].items = orders[i].items
             /\ orders'[i].orderSummary = orders[i].orderSummary]_vars

\* a stored order shows a price the catalog no longer has
C14_Witness ==
    /\ Len(orders) >= 1
    /\ \E j \in 1..Len(orders[1].items) :
          LET it == orders[1].items[j]
          IN products[it.productId] # NullProduct /\ products[it.productId].price # it.price

\* C15: every stored order has at least one item, in every reachable state.
C15_OrdersNonEmpty ==
    \A i \in 1..Len(orders) : Len(orders[i].items) >= 1

\* an order was stored by a placeOrder whose cart a remove emptied after the read
C15_Witness ==
    \E r \in Slots :
        /\ pc[r] = "order_deleteMany" /\ ~solo[r]
        /\ CartOf(cartItems, usr[r]) = {}
        /\ CartOf(pre[r].cartItems, usr[r]) # {}
        /\ \E i \in 1..Len(orders) : orders[i] = loc[r].newOrder

\* the value an order stores for a shipping field
Stored(o, f) == IF f \in DOMAIN o.shippingInfo THEN o.shippingInfo[f] ELSE Undefined

\* slot r stores its order in this step
Stores(r) == pc[r] = "order_save" /\ pc'[r] = "order_deleteMany"

\* C16 as stated: the stored order carries the city and phone of the request, and
\* every other shipping field the caller supplied is stored with it.
C16_ShippingPassedThrough ==
    [][\A r \in Slots :
          Stores(r)
          => LET o == orders'[Len(orders')]
             IN \A f \in AllShippingFields :
                   body[r].shippingInfo.v[f] # Undefined
                   => Stored(o, f) = body[r].shippingInfo.v[f]]_vars

\* C16: the stored order carries the city and phone of the request and no other
\* shipping field: fullName, address, state and zipCode are dropped even when the
\* caller supplies them.
C16_CityAndPhoneOnly ==
    [][\A r \in Slots :
          Stores(r)
          => LET o == orders'[Len(orders')]
             IN \A f \in AllShippingFields :
                   Stored(o, f) = IF f \in {"city", "phone"}
                                  THEN body[r].shippingInfo.v[f]
                                  ELSE Undefined]_vars

\* an order stored from a request that supplied all six shipping fields
C16_Witness ==
    \E r \in Slots :
        /\ pc[r] = "order_deleteMany"
        /\ \A f \in AllShippingFields : body[r].shippingInfo.v[f] # Undefined
        /\ \E i \in 1..Len(orders) :
              orders[i] = loc[r].newOrder /\ Stored(orders[i], "city") # Undefined

\* C17: nothing serializes the placeOrder requests of one user: whenever two of
\* them have read the same cart and one has stored its order, the other (its
\* order being valid) can still store an order with the same items.
C17_DuplicateOrdersPossible ==
    \A r \in Slots : \A s \in Slots :
        (/\ r # s /\ usr[r] = usr[s]
         /\ pc[r] = "order_deleteMany" /\ pc[s] = "order_save"
         /\ loc[s].newOrder.items = loc[r].newOrder.items
         /\ OrderValid(loc[s].newOrder)
         /\ \E i \in 1..Len(orders) : orders[i] = loc[r].newOrder)
        => ENABLED (/\ PlaceOrderSave(s)
                    /\ Len(orders') = Len(orders) + 1
                    /\ orders'[Len(orders')].items = loc[r].newOrder.items)

\* two orders of one user with the same items are stored while both requests
\* still wait to clear the cart
C17_Witness ==
    /\ \A r \in Slots : pc[r] = "order_deleteMany"
    /\ usr[1] = usr[2]
    /\ Len(orders) = 2
    /\ orders[1].userId = orders[2].userId
    /\ orders[1].items = orders[2].items
    /\ CartOf(cartItems, usr[1]) # {}

\* C18: every cart line that a placeOrder deletes when it clears the cart is, with
\* its quantity, among the items of the order that request stored.
C18_ClearedLinesAreOrdered ==
    [][\A r \in Slots :
          (pc[r] = "order_deleteMany" /\ pc'[r] = "done" /\ resp'[r].status = 201)
          => \A c \in cartItems \ cartItems' :
                \E j \in 1..Len(loc[r].newOrder.items) :
                    /\ loc[r].newOrder.items[j].productId = c.productId
                    /\ loc[r].newOrder.items[j].quantity = c.quantity]_vars

\* C19: when two adds of one user on the same existing line interleave and both
\* succeed, the second save raises the stored quantity, which holds the first
\* increment, by its own amount: the line ends at the initial quantity plus both.
C19_BothIncrementsCount ==
    [][\A r \in Slots :
          (/\ pc[r] = "add_save" /\ pc'[r] = "done" /\ resp'[r].status = 200
           /\ ~solo[r]
           /\ \E s \in Slots \ {r} :
                 /\ op[s] = "add" /\ pc[s] = "done" /\ resp[s].status = 200
                 /\ usr[s] = usr[r] /\ body[s].productId = body[r].productId)
          => \A c \in cartItems : \A d \in cartItems' :
                (c.id = loc[r].item.id /\ d.id = c.id)
                => d.quantity = c.quantity + body[r].quantity]_vars

\* slot r takes a step of its handler
Acts(r) == Began(r) \/ (~Idle(r) /\ pc'[r] # pc[r])

\* C20: a step of a request made with user A's identity leaves the cart lines and
\* the orders of every other user as they were, and what it returns is taken from
\* A's own orders and cart lines only.
C20_OtherUsersUntouched ==
    [][\A r \in Slots :
          Acts(r)
          => LET A == usr'[r]
                 data == resp'[r].data
                 returns == pc'[r] = "done" /\ resp'[r].status = 200
             IN /\ \A B \in Users \ {A} :
                      /\ CartOf(cartItems', B) = CartOf(cartItems, B)
                      /\ OrdersOf(orders', B) = OrdersOf(orders, B)
                /\ (returns /\ op'[r] = "getOrder")
                   => \A i \in 1..Len(data) :
                         \E k \in 1..Len(orders) : orders[k].userId = A /\ data[i] = orders[k]
                /\ (returns /\ op'[r] = "listOrders")
                   => /\ Len(data) = Len(OrdersOf(orders, A))
                      /\ \A i \in 1..Len(data) :
                            \E k \in 1..Len(orders) :
                                orders[k].userId = A /\ data[i] = OrderHistoryEntry(orders[k])
                /\ (returns /\ op'[r] = "getCart")
                   => /\ Len(data) = Cardinality(CartOf(cartItems, A))
                      /\ \A i \in 1..Len(data) :
                            \E c \in CartOf(cartItems, A) :
                                data[i].id = c.productId /\ data[i].quantity = c.quantity]_vars

\* one user's order has been placed and cleared that user's cart while the other
\* user, who still has cart lines, listed orders and got none
C20_Witness ==
    \E r \in Slots : \E s \in Slots :
        /\ op[r] = "placeOrder" /\ pc[r] = "done" /\ resp[r].status = 201
        /\ op[s] = "listOrders" /\ pc[s] = "done" /\ resp[s].data = <<>>
        /\ usr[r] # usr[s]
        /\ \E k \in 1..Len(orders) : orders[k].userId = usr[r]
        /\ CartOf(cartItems, usr[s]) # {}

====
